---- MODULE Spec2Model ----
(***************************************************************************)
(* Model of src/auto_subtitle_injector_full.py: the session registry       *)
(* (active_tasks, processing_status, hls_processes, subtitle_cache), the   *)
(* three control handlers (start_streaming, stop_streaming, get_status)    *)
(* and the background coroutine realtime_subtitle_worker.                  *)
(*                                                                         *)
(* Scheduling.  The handlers and the worker are all "async def" and run on *)
(* one asyncio event loop; subprocess and file calls inside the worker are *)
(* blocking, so the only point where a worker yields the loop is           *)
(* "await asyncio.sleep(...)" (lines 320 and 324).  The variable `running` *)
(* names the coroutine that holds the loop; the worker is split into       *)
(* steps so that the files it writes can be observed between two writes    *)
(* by the external renderer processes, which do not run on the loop.       *)
(*                                                                         *)
(* Time.  Times are integer milliseconds.  clock[id] is the wall clock as  *)
(* read by the worker of id, measured from its stream_start_time (line     *)
(* 250).  Only run_cmd and asyncio.sleep take time.                        *)
(*                                                                         *)
(* Text.  A text is a sequence of one-character tokens.                    *)
(***************************************************************************)
EXTENDS Integers, Sequences, FiniteSets, TLC

\* ---------------------------------------------------------------- bounds
\* Total number of loop iterations started, over all sessions.
MaxIter == 4
\* The same, in the specification with fairness (FairSpec).
MaxIterFair == 2
\* The same, in the specification with two sessions (SpecTwo).
MaxIterTwo == 1
\* Total number of environment failures (I/O errors, provider errors, ...).
MaxFaults == 1

\* ----------------------------------------------------- program constants
\* (the source gives times in seconds; the model counts milliseconds)
segment_duration == 5000
sleep_floor == 500
backoff_sleep == 1000
min_artifact_size == 1000
preview_seq == 3

\* ------------------------------------------------------ input alphabets
Ids == {"s1", "s2"}
\* A source locator is a sequence of path tokens; the second one is a stream
\* served from a directory named "hls".
Urls == { <<"http:", "cdn", "live", "a.m3u8">>, <<"http:", "cdn", "hls", "a.m3u8">> }
TargetLangs == {"original", "id"}
\* What model.transcribe returns in result['text'] (before .strip()).
RawTexts == { <<" ", "b", ",", "c", "\n", "d">>, <<" ">>, <<>> }
\* Durations of one capture subprocess (run_cmd), in ms.
CaptureTimes == {1234, 6000}
\* Sizes in bytes of the artifact a capture leaves behind (0: no file).
ClipSizes == {0, 44, 160044}

VARIABLES
    unused,             \* the ids uuid4 has not returned yet
    active_tasks,       \* keys of the dict active_tasks (every value is True)
    processing_status,  \* dict task_id -> status record
    hls_processes,      \* dict task_id -> process handle
    subtitle_cache,     \* dict task_id -> list of cues
    whisper_model,      \* TRUE iff the global whisper_model is not None
    vtt_file,           \* dict task_id -> lines of OUTDIR/subtitles_<id>.vtt
    ass_file,           \* dict task_id -> lines of OUTDIR/subtitles_<id>.ass
    clip_files,         \* set of <<task_id, seq>>: WORKDIR/clip_<id>_<seq>.wav
    preview_files,      \* set of task_id: PREVIEW_DIR/preview_<id>.mp4
    args,               \* task_id -> arguments the worker was started with
    pc,                 \* task_id -> position of the worker
    seq,                \* task_id -> the worker's local seq
    clock,              \* task_id -> time.time() - stream_start_time
    cur,                \* task_id -> locals of the current iteration
    sleep_time,         \* task_id -> argument of the pending asyncio.sleep
    running,            \* the coroutine holding the event loop ("" if idle)
    response,           \* the response of the handler that has just returned
    terminate_calls,    \* task_id -> number of Popen.terminate() calls
    preview_calls,      \* task_id -> number of preview renderer invocations
    subtitle_seq,       \* task_id -> seq of the iteration that wrote last_subtitle
    iters_left,         \* iterations that may still be started (the bound)
    faults              \* environment failures so far (bounded by MaxFaults)

vars == <<unused, active_tasks, processing_status, hls_processes, subtitle_cache,
          whisper_model, vtt_file, ass_file, clip_files, preview_files, args,
          pc, seq, clock, cur, sleep_time, running, response,
          terminate_calls, preview_calls, subtitle_seq, iters_left, faults>>

registry == <<active_tasks, processing_status, hls_processes, subtitle_cache>>
files == <<vtt_file, ass_file, clip_files, preview_files>>
locals == <<args, pc, seq, clock, cur, sleep_time>>
ghosts == <<terminate_calls, preview_calls, subtitle_seq>>

\* ------------------------------------------------------- python helpers
\* d[k] = v on a dict
PutMut(d, k, v) == [x \in {k} |-> v]
Put(d, k, v) == [x \in (DOMAIN d) \cup {k} |-> IF x = k THEN v ELSE d[x]]
\* del d[k]
Del(d, k) == [x \in (DOMAIN d) \ {k} |-> d[x]]
EmptyDict == [x \in {} |-> 0]
Max(a, b) == IF a >= b THEN a ELSE b
Last(s) == s[Len(s)]

NoResponse == [op |-> "none", id |-> "", body |-> "none"]
NoArgs == [source_url |-> <<>>, target_lang |-> ""]
CurInit == [current_stream_time |-> 0, start_proc |-> 0, capture |-> "none",
            raw |-> <<>>, text_original |-> <<>>, final_text |-> <<>>,
            translation |-> "none", preview_rc |-> -1, preview_size |-> -1,
            seq0 |-> 0, cues0 |-> 0, vtt0 |-> 0, ass0 |-> 0]

\* ------------------------------------------------------- pure functions
\* "hls" in cmd  (line 78), on a command given as a sequence of tokens
ContainsHls(cmd) == \E i \in 1..Len(cmd) : cmd[i] = "hls"

\* lines 258-263: the capture command line
CaptureCmd(source_url, task_id, n) ==
    <<"ffmpeg", "-y", "-hide_banner", "-loglevel", "error", "-i">> \o source_url
    \o <<"-t", "5", "-vn", "-ac", "1", "-ar", "16000", "-acodec", "pcm_s16le",
         "-f", "wav", "asr_work", "clip", task_id>>

\* lines 141-149: the preview command line
PreviewCmd(source_url, task_id) ==
    <<"ffmpeg", "-y", "-reconnect", "1", "-i">> \o source_url
    \o <<"-vf", "ass", "out", "subtitles", task_id, "-t", "15", "preview", task_id>>

\* run_cmd (lines 74-90).  outcome is what the subprocess does: "exit0",
\* "exit1", "timeout" (communicate exceeds 15 s) or "oserror" (Popen raises).
\* The result is the 3-tuple's return code, or the Popen object itself.
run_cmd(cmd, outcome) ==
    IF outcome = "oserror" THEN [kind |-> "tuple", rc |-> -1]
    ELSE IF ~ContainsHls(cmd)
         THEN [kind |-> "tuple",
               rc |-> CASE outcome = "exit0" -> 0
                        [] outcome = "exit1" -> 1
                        [] OTHER -> -1]
         ELSE [kind |-> "proc", rc |-> 0]

\* line 268 / line 154: rc == 0 and exists(file) and getsize(file) > 1000
ArtifactOkMut(rc, size) == rc = 0
ArtifactOk(rc, size) == rc = 0 /\ size > 0 /\ size > min_artifact_size

\* str.strip() on a token sequence
RECURSIVE LStrip(_)
LStrip(s) == IF s # <<>> /\ Head(s) = " " THEN LStrip(Tail(s)) ELSE s
RECURSIVE RStrip(_)
RStrip(s) == IF s # <<>> /\ s[Len(s)] = " " THEN RStrip(SubSeq(s, 1, Len(s) - 1)) ELSE s
StripMut(s) == s
Strip(s) == RStrip(LStrip(s))

\* The translation provider on a successful call (a black box: it returns
\* some text in the target language, here the source text marked "~").
GoogleTranslate(text) == <<"~">> \o text

\* format_time (lines 92-96): H:MM:SS.mmm as <<hours, minutes, millis>>
format_time(seconds) ==
    << seconds \div 3600000, (seconds % 3600000) \div 60000, seconds % 60000 >>

\* the ASS time format of lines 103-104: H:MM:SS.cc as <<hours, minutes,
\* centis>>; "%05.2f" rounds seconds % 60 to the nearest centisecond (model
\* times are even numbers of ms, so no value lies half-way).
format_ass_time(t) ==
    << t \div 3600000, (t % 3600000) \div 60000, ((t % 60000) + 5) \div 10 >>

\* create_vtt_cue (lines 98-99)
create_vtt_cue(start, end, text) ==
    [start |-> format_time(start), end |-> format_time(end), text |-> text]

\* text.replace(",", "\\N") (line 105)
RECURSIVE ReplaceComma(_)
ReplaceComma(text) ==
    IF text = <<>> THEN <<>>
    ELSE (IF Head(text) = "," THEN <<"\\", "N">> ELSE <<Head(text)>>)
         \o ReplaceComma(Tail(text))

\* create_ass_subtitle (lines 101-106)
create_ass_subtitle(text, start_time, end_time) ==
    [layer |-> 0, start |-> format_ass_time(start_time),
     end |-> format_ass_time(end_time), style |-> "Default",
     text |-> ReplaceComma(text)]

\* Reading the documents back: the offsets in ms a player computes
ParseVttTime(f) == f[1] * 3600000 + f[2] * 60000 + f[3]
ParseAssTime(f) == 10 * (f[1] * 360000 + f[2] * 6000 + f[3])

\* line 286
SubEndMut(sub_start) == sub_start
SubEnd(sub_start) == sub_start + segment_duration

\* line 319
SleepTimeMut(elapsed) == segment_duration - elapsed
SleepTime(elapsed) == Max(sleep_floor, segment_duration - elapsed)

\* line 253: while task_id in active_tasks
LoopCondMut(task_id) == TRUE
LoopCond(task_id) == task_id \in active_tasks

\* line 307
PreviewCondMut(task_id) ==
    ~processing_status[task_id].preview_ready /\ Len(subtitle_cache[task_id]) = preview_seq + 1
PreviewCond(task_id) == ~processing_status[task_id].preview_ready /\ seq[task_id] = preview_seq

\* lines 226-236
StatusInit ==
    [status |-> "streaming", progress |-> 0, current_segment |-> 0,
     last_subtitle |-> <<>>, start_time |-> 0, preview_ready |-> FALSE,
     hls_ready |-> FALSE, preview_file |-> "", hls_url |-> ""]

\* lines 296-298
LogMsg(final_text, text_original, target_lang) ==
    IF target_lang # "original"
    THEN final_text \o <<" ", "(">> \o text_original \o <<")">>
    ELSE final_text

\* get_status (lines 357-361): the body returned
get_statusMut(task_id) ==
    IF task_id \in DOMAIN processing_status /\ task_id \in active_tasks
    THEN processing_status[task_id]
    ELSE [status |-> "not_found"]
get_status(task_id) ==
    IF task_id \in DOMAIN processing_status
    THEN processing_status[task_id]
    ELSE [status |-> "not_found"]

\* stop_streaming (lines 351-355): the body returned
stop_resultMut(task_id) == IF task_id \in active_tasks THEN "stopped" ELSE "not_found"
stop_result(task_id) == "stopped"

\* ------------------------------------------------------------ initial state
\* lines 49-55: the module-level globals, and empty work directories
InitRest ==
    /\ active_tasks = {}
    /\ processing_status = EmptyDict
    /\ hls_processes = EmptyDict
    /\ subtitle_cache = EmptyDict
    /\ whisper_model = FALSE
    /\ vtt_file = EmptyDict
    /\ ass_file = EmptyDict
    /\ clip_files = {}
    /\ preview_files = {}
    /\ args = [i \in Ids |-> NoArgs]
    /\ pc = [i \in Ids |-> "none"]
    /\ seq = [i \in Ids |-> 0]
    /\ clock = [i \in Ids |-> 0]
    /\ cur = [i \in Ids |-> CurInit]
    /\ sleep_time = [i \in Ids |-> 0]
    /\ running = ""
    /\ response = NoResponse
    /\ terminate_calls = [i \in Ids |-> 0]
    /\ preview_calls = [i \in Ids |-> 0]
    /\ subtitle_seq = [i \in Ids |-> -1]

\* One session can be started; the other id is never handed out by uuid4.
Init == unused = {"s1"} /\ iters_left = MaxIter /\ faults = 0 /\ InitRest
\* The runs checked under fairness: short ones with environment failures,
\* and longer ones (long enough for the preview) with none.
InitFair ==
    /\ unused = {"s1"}
    /\ \/ iters_left = MaxIterFair /\ faults = 0
       \/ iters_left = MaxIter /\ faults = MaxFaults
    /\ InitRest

\* Two sessions: uuid4 may hand out either id.  The runs are short ones
\* with environment failures, and longer ones with none.
InitTwo ==
    /\ unused = Ids
    /\ \/ iters_left = MaxIterTwo /\ faults = 0
       \/ iters_left = MaxIter /\ faults = MaxFaults
    /\ InitRest

\* An environment failure is taken only while the failure budget lasts.
Fault == faults < MaxFaults /\ faults' = faults + 1
NoFault == faults' = faults

\* ------------------------------------------------------------- handlers
\* The handlers and the worker are coroutines of one event loop: a handler
\* runs only while no worker holds the loop, that is while every worker is
\* queued, suspended in asyncio.sleep (lines 320, 324) or ended.
LoopIdleMut == TRUE
LoopIdle == running = ""

\* start_streaming (lines 344-349).  uuid4 yields an id never used before.
\* source_lang only selects a decode option of the transcription provider
\* and is left out.
start_streaming(task_id, source_url, target_lang) ==
    /\ LoopIdle
    /\ task_id \in unused
    /\ unused' = unused \ {task_id}
    /\ active_tasks' = active_tasks \cup {task_id}
    /\ args' = [args EXCEPT ![task_id] =
                  [source_url |-> source_url, target_lang |-> target_lang]]
    /\ pc' = [pc EXCEPT ![task_id] = "queued"]
    /\ response' = [op |-> "start", id |-> task_id, body |-> "started"]
    /\ UNCHANGED <<processing_status, hls_processes, subtitle_cache, whisper_model,
                   files, seq, clock, cur, sleep_time, running, ghosts, iters_left, faults>>

\* stop_streaming (lines 351-355)
stop_streaming(task_id) ==
    /\ LoopIdle
    /\ active_tasks' = active_tasks \ {task_id}
    /\ response' = [op |-> "stop", id |-> task_id, body |-> stop_result(task_id)]
    /\ UNCHANGED <<unused, processing_status, hls_processes, subtitle_cache, whisper_model,
                   files, locals, running, ghosts, iters_left, faults>>

\* the handler of GET /status/{task_id} (lines 357-361)
status_request(task_id) ==
    /\ LoopIdle
    /\ response' = [op |-> "status", id |-> task_id, body |-> get_status(task_id).status]
    /\ UNCHANGED <<unused, registry, whisper_model, files, locals, running, ghosts, iters_left, faults>>

\* ------------------------------------------------------------ the worker
\* A worker takes the event loop only if, should it find its session live,
\* the iteration budget lets it run the iteration.
MayRun(task_id) ==
    /\ running = ""
    /\ task_id \in active_tasks => iters_left > 0

\* lines 211-214 with get_or_load_model (lines 59-72)
W_LoadModel(task_id) ==
    /\ pc[task_id] = "queued"
    /\ MayRun(task_id)
    /\ response' = NoResponse
    /\ \/ /\ whisper_model
          /\ NoFault
          /\ UNCHANGED whisper_model
          /\ pc' = [pc EXCEPT ![task_id] = "files"]
          /\ running' = task_id
       \/ /\ ~whisper_model
          /\ NoFault
          /\ whisper_model' = TRUE
          /\ pc' = [pc EXCEPT ![task_id] = "files"]
          /\ running' = task_id
       \/ /\ ~whisper_model      \* whisper.load_model raises: returns None
          /\ Fault
          /\ UNCHANGED whisper_model
          /\ pc' = [pc EXCEPT ![task_id] = "returned"]
          /\ running' = ""
    /\ UNCHANGED <<unused, registry, files, args, seq, clock, cur, sleep_time, ghosts, iters_left>>

\* lines 216-223: both documents are created with their headers
W_CreateFiles(task_id) ==
    /\ pc[task_id] = "files"
    /\ running = task_id
    /\ response' = NoResponse
    /\ \/ /\ NoFault
          /\ vtt_file' = Put(vtt_file, task_id, [header |-> "WEBVTT", cues |-> <<>>])
          /\ ass_file' = Put(ass_file, task_id, [header |-> "[Script Info]", cues |-> <<>>])
          /\ pc' = [pc EXCEPT ![task_id] = "init"]
          /\ UNCHANGED running
       \/ /\ Fault               \* open(vtt_path, 'w') raises
          /\ UNCHANGED <<vtt_file, ass_file>>
          /\ pc' = [pc EXCEPT ![task_id] = "crashed"]
          /\ running' = ""
       \/ /\ Fault               \* open(ass_path, 'w') raises
          /\ vtt_file' = Put(vtt_file, task_id, [header |-> "WEBVTT", cues |-> <<>>])
          /\ UNCHANGED ass_file
          /\ pc' = [pc EXCEPT ![task_id] = "crashed"]
          /\ running' = ""
    /\ UNCHANGED <<unused, registry, whisper_model, clip_files, preview_files, args, seq,
                   clock, cur, sleep_time, ghosts, iters_left>>

\* lines 225-243: status record, cue cache, seq, translator
W_InitStatus(task_id) ==
    /\ pc[task_id] = "init"
    /\ running = task_id
    /\ response' = NoResponse
    /\ processing_status' = Put(processing_status, task_id, StatusInit)
    /\ subtitle_cache' = Put(subtitle_cache, task_id, <<>>)
    /\ seq' = [seq EXCEPT ![task_id] = 0]
    /\ \/ /\ NoFault
          /\ pc' = [pc EXCEPT ![task_id] = "hls"]
          /\ UNCHANGED running
       \/ /\ args[task_id].target_lang # "original"   \* GoogleTranslator(...) raises
          /\ Fault
          /\ pc' = [pc EXCEPT ![task_id] = "crashed"]
          /\ running' = ""
    /\ UNCHANGED <<unused, active_tasks, hls_processes, whisper_model, files, args, clock,
                   cur, sleep_time, ghosts, iters_left>>

\* lines 245-247 with start_hls_stream (lines 165-206)
W_StartHls(task_id) ==
    /\ pc[task_id] = "hls"
    /\ running = task_id
    /\ response' = NoResponse
    /\ \/ /\ NoFault             \* Popen succeeds
          /\ hls_processes' = Put(hls_processes, task_id, "process")
          /\ processing_status' = [processing_status EXCEPT ![task_id].hls_ready = TRUE]
          /\ pc' = [pc EXCEPT ![task_id] = "hls_url"]
          /\ UNCHANGED running
       \/ /\ Fault               \* Popen raises: caught, returns False
          /\ UNCHANGED <<hls_processes, processing_status>>
          /\ pc' = [pc EXCEPT ![task_id] = "top"]
          /\ UNCHANGED running
       \/ /\ Fault               \* os.makedirs (line 168, outside the try) raises
          /\ UNCHANGED <<hls_processes, processing_status>>
          /\ pc' = [pc EXCEPT ![task_id] = "crashed"]
          /\ running' = ""
    /\ clock' = [clock EXCEPT ![task_id] = 0]
    /\ UNCHANGED <<unused, active_tasks, subtitle_cache, whisper_model, files, args, seq,
                   cur, sleep_time, ghosts, iters_left>>

\* lines 248-251: the manifest of a launched renderer is recorded
W_HlsUrl(task_id) ==
    /\ pc[task_id] = "hls_url"
    /\ running = task_id
    /\ response' = NoResponse
    /\ processing_status' = [processing_status EXCEPT ![task_id].hls_url = "/hls/stream.m3u8"]
    /\ clock' = [clock EXCEPT ![task_id] = 0]
    /\ pc' = [pc EXCEPT ![task_id] = "top"]
    /\ UNCHANGED <<unused, active_tasks, hls_processes, subtitle_cache, whisper_model, files,
                   args, seq, cur, sleep_time, running, ghosts, iters_left, faults>>

\* line 253 and line 255: the loop test, and the top of an iteration
W_LoopCheck(task_id) ==
    /\ pc[task_id] = "top"
    /\ running = task_id
    /\ response' = NoResponse
    /\ IF LoopCond(task_id)
       THEN /\ iters_left > 0
            /\ iters_left' = iters_left - 1
            /\ cur' = [cur EXCEPT ![task_id] =
                   [CurInit EXCEPT !.current_stream_time = clock[task_id],
                                   !.seq0 = seq[task_id],
                                   !.cues0 = Len(subtitle_cache[task_id]),
                                   !.vtt0 = Len(vtt_file[task_id].cues),
                                   !.ass0 = Len(ass_file[task_id].cues)]]
            /\ pc' = [pc EXCEPT ![task_id] = "capture"]
       ELSE /\ UNCHANGED <<iters_left, cur>>
            /\ pc' = [pc EXCEPT ![task_id] = "teardown"]
    /\ UNCHANGED <<unused, registry, whisper_model, files, args, seq, clock, sleep_time,
                   running, ghosts, faults>>

\* lines 256-268: capture one segment.  The subprocess leaves an artifact of
\* `size` bytes (0: none) and, when run_cmd waits for it, takes d ms.  When
\* run_cmd hands back the Popen object instead, the unpacking on line 266
\* raises TypeError at once, while ffmpeg keeps running and may write the
\* artifact.
W_Capture(task_id) ==
    /\ pc[task_id] = "capture"
    /\ running = task_id
    /\ response' = NoResponse
    /\ \E outcome \in {"exit0", "exit1", "timeout", "oserror"}, size \in ClipSizes :
         LET r == run_cmd(CaptureCmd(args[task_id].source_url, task_id, seq[task_id]), outcome)
             written == IF size > 0 /\ outcome # "oserror"
                        THEN {<<task_id, seq[task_id]>>} ELSE {}
         IN /\ clip_files' = clip_files \cup written
            /\ IF r.kind = "proc"
               THEN /\ NoFault
                    /\ cur' = [cur EXCEPT ![task_id].start_proc = clock[task_id],
                                          ![task_id].capture = "proc"]
                    /\ UNCHANGED clock
                    /\ pc' = [pc EXCEPT ![task_id] = "except"]
               ELSE /\ \E d \in CaptureTimes : clock' = [clock EXCEPT ![task_id] = @ + d]
                    /\ IF ArtifactOk(r.rc, size) /\ written # {}
                       THEN /\ NoFault
                            /\ cur' = [cur EXCEPT ![task_id].start_proc = clock[task_id],
                                                  ![task_id].capture = "ok"]
                            /\ pc' = [pc EXCEPT ![task_id] = "transcribe"]
                       ELSE /\ Fault
                            /\ cur' = [cur EXCEPT ![task_id].start_proc = clock[task_id],
                                                  ![task_id].capture = "failed"]
                            /\ pc' = [pc EXCEPT ![task_id] = "next"]
    /\ UNCHANGED <<unused, registry, whisper_model, vtt_file, ass_file, preview_files, args,
                   seq, sleep_time, running, ghosts, iters_left>>

\* lines 269-277: transcribe, strip, test for text
W_Transcribe(task_id) ==
    /\ pc[task_id] = "transcribe"
    /\ running = task_id
    /\ response' = NoResponse
    /\ \/ \E raw \in RawTexts :
            LET text_original == Strip(raw) IN
            /\ cur' = [cur EXCEPT ![task_id].raw = raw,
                                  ![task_id].text_original = text_original]
            /\ IF text_original # <<>>
               THEN NoFault /\ pc' = [pc EXCEPT ![task_id] = "translate"]
               ELSE Fault /\ pc' = [pc EXCEPT ![task_id] = "remove"]
       \/ /\ Fault               \* model.transcribe raises
          /\ UNCHANGED cur
          /\ pc' = [pc EXCEPT ![task_id] = "except"]
    /\ UNCHANGED <<unused, registry, whisper_model, files, args, seq, clock, sleep_time,
                   running, ghosts, iters_left>>

\* lines 278-282: translate, keeping the transcribed text if the provider
\* raises.  The provider may also return normally with an empty string.
W_Translate(task_id) ==
    /\ pc[task_id] = "translate"
    /\ running = task_id
    /\ response' = NoResponse
    /\ LET text_original == cur[task_id].text_original IN
       \/ /\ args[task_id].target_lang = "original"      \* translator is None
          /\ NoFault
          /\ cur' = [cur EXCEPT ![task_id].final_text = text_original]
       \/ /\ args[task_id].target_lang # "original"
          /\ NoFault
          /\ cur' = [cur EXCEPT ![task_id].final_text = GoogleTranslate(text_original),
                                ![task_id].translation = "ok"]
       \/ /\ args[task_id].target_lang # "original"      \* translate raises
          /\ Fault
          /\ cur' = [cur EXCEPT ![task_id].final_text = text_original,
                                ![task_id].translation = "raised"]
       \/ /\ args[task_id].target_lang # "original"      \* translate returns ""
          /\ Fault
          /\ cur' = [cur EXCEPT ![task_id].final_text = <<>>,
                                ![task_id].translation = "empty"]
    /\ pc' = [pc EXCEPT ![task_id] = "vtt"]
    /\ UNCHANGED <<unused, registry, whisper_model, files, args, seq, clock, sleep_time,
                   running, ghosts, iters_left>>

\* open(path, 'a') and write of one cue (lines 289-290, 293-294)
AppendCueMut(doc, cue) == [doc EXCEPT !.cues = <<cue>>]
AppendCue(doc, cue) == [doc EXCEPT !.cues = Append(@, cue)]

\* lines 284-290: the cue's offsets, and the append to the timed-text document
W_WriteVtt(task_id) ==
    /\ pc[task_id] = "vtt"
    /\ running = task_id
    /\ response' = NoResponse
    /\ LET sub_start == cur[task_id].current_stream_time
           sub_end == SubEnd(sub_start)
           vtt_cue == create_vtt_cue(sub_start, sub_end, cur[task_id].final_text)
       IN \/ /\ NoFault
             /\ vtt_file' = [vtt_file EXCEPT ![task_id] = AppendCue(@, vtt_cue)]
             /\ pc' = [pc EXCEPT ![task_id] = "ass"]
          \/ /\ Fault            \* open/write raises
             /\ UNCHANGED vtt_file
             /\ pc' = [pc EXCEPT ![task_id] = "except"]
    /\ UNCHANGED <<unused, registry, whisper_model, ass_file, clip_files, preview_files, args,
                   seq, clock, cur, sleep_time, running, ghosts, iters_left>>

\* lines 292-294: the append to the styled document
W_WriteAss(task_id) ==
    /\ pc[task_id] = "ass"
    /\ running = task_id
    /\ response' = NoResponse
    /\ LET sub_start == cur[task_id].current_stream_time
           sub_end == SubEnd(sub_start)
           ass_line == create_ass_subtitle(cur[task_id].final_text, sub_start, sub_end)
       IN \/ /\ NoFault
             /\ ass_file' = [ass_file EXCEPT ![task_id] = AppendCue(@, ass_line)]
             /\ pc' = [pc EXCEPT ![task_id] = "status"]
          \/ /\ Fault            \* open/write raises
             /\ UNCHANGED ass_file
             /\ pc' = [pc EXCEPT ![task_id] = "except"]
    /\ UNCHANGED <<unused, registry, whisper_model, vtt_file, clip_files, preview_files, args,
                   seq, clock, cur, sleep_time, running, ghosts, iters_left>>

\* lines 296-300: the log line, and the snapshot's last_subtitle
W_UpdateStatus(task_id) ==
    /\ pc[task_id] = "status"
    /\ running = task_id
    /\ response' = NoResponse
    /\ LET log_msg == LogMsg(cur[task_id].final_text, cur[task_id].text_original,
                             args[task_id].target_lang)
       IN processing_status' = [processing_status EXCEPT ![task_id].last_subtitle = log_msg]
    /\ subtitle_seq' = [subtitle_seq EXCEPT ![task_id] = seq[task_id]]
    /\ pc' = [pc EXCEPT ![task_id] = "segment"]
    /\ UNCHANGED <<unused, active_tasks, hls_processes, subtitle_cache, whisper_model, files,
                   args, seq, clock, cur, sleep_time, running, terminate_calls,
                   preview_calls, iters_left, faults>>

\* lines 301-305: the snapshot's current_segment, and the cue cache
W_UpdateSegment(task_id) ==
    /\ pc[task_id] = "segment"
    /\ running = task_id
    /\ response' = NoResponse
    /\ LET sub_start == cur[task_id].current_stream_time
           sub_end == SubEnd(sub_start)
       IN /\ processing_status' = [processing_status EXCEPT
                                      ![task_id].current_segment = seq[task_id]]
          /\ subtitle_cache' = [subtitle_cache EXCEPT ![task_id] =
                 Append(@, [start |-> sub_start, end |-> sub_end,
                            text |-> cur[task_id].final_text])]
    /\ pc' = [pc EXCEPT ![task_id] = "preview"]
    /\ UNCHANGED <<unused, active_tasks, hls_processes, whisper_model, files, args, seq, clock,
                   cur, sleep_time, running, ghosts, iters_left, faults>>

\* lines 307-310 with generate_preview_with_burned_subtitles (lines 131-163)
W_Preview(task_id) ==
    /\ pc[task_id] = "preview"
    /\ running = task_id
    /\ response' = NoResponse
    /\ IF PreviewCond(task_id)
       THEN /\ preview_calls' = [preview_calls EXCEPT ![task_id] = @ + 1]
            /\ \E outcome \in {"exit0", "exit1"}, size \in ClipSizes :
                 LET r == run_cmd(PreviewCmd(args[task_id].source_url, task_id), outcome)
                 IN /\ cur' = [cur EXCEPT ![task_id].preview_rc = r.rc,
                                          ![task_id].preview_size = size]
                    /\ IF r.kind = "tuple" /\ ArtifactOk(r.rc, size)
                       THEN /\ NoFault
                            /\ preview_files' = preview_files \cup {task_id}
                            /\ processing_status' = [processing_status EXCEPT
                                                       ![task_id].preview_ready = TRUE]
                            /\ pc' = [pc EXCEPT ![task_id] = "preview_file"]
                       ELSE /\ Fault
                            /\ preview_files' = IF size > 0 THEN preview_files \cup {task_id}
                                                ELSE preview_files
                            /\ UNCHANGED processing_status
                            /\ pc' = [pc EXCEPT ![task_id] = "remove"]
       ELSE /\ NoFault
            /\ UNCHANGED <<preview_calls, preview_files, processing_status, cur>>
            /\ pc' = [pc EXCEPT ![task_id] = "remove"]
    /\ UNCHANGED <<unused, active_tasks, hls_processes, subtitle_cache, whisper_model, vtt_file,
                   ass_file, clip_files, args, seq, clock, sleep_time, running,
                   terminate_calls, subtitle_seq, iters_left>>

\* line 311: the artifact of a rendered preview is recorded
W_PreviewFile(task_id) ==
    /\ pc[task_id] = "preview_file"
    /\ running = task_id
    /\ response' = NoResponse
    /\ processing_status' = [processing_status EXCEPT ![task_id].preview_file = "preview.mp4"]
    /\ pc' = [pc EXCEPT ![task_id] = "remove"]
    /\ UNCHANGED <<unused, active_tasks, hls_processes, subtitle_cache, whisper_model, files,
                   args, seq, clock, cur, sleep_time, running, ghosts, iters_left, faults>>

\* lines 313-314: best-effort removal of the artifact
W_RemoveClip(task_id) ==
    /\ pc[task_id] = "remove"
    /\ running = task_id
    /\ response' = NoResponse
    /\ \/ /\ NoFault
          /\ clip_files' = clip_files \ {<<task_id, seq[task_id]>>}
       \/ /\ Fault               \* os.remove raises: ignored
          /\ UNCHANGED clip_files
    /\ pc' = [pc EXCEPT ![task_id] = "next"]
    /\ UNCHANGED <<unused, registry, whisper_model, vtt_file, ass_file, preview_files, args,
                   seq, clock, cur, sleep_time, running, ghosts, iters_left>>

\* lines 316-320: advance seq, compute the sleep, yield the event loop
W_Next(task_id) ==
    /\ pc[task_id] = "next"
    /\ running = task_id
    /\ response' = NoResponse
    /\ seq' = [seq EXCEPT ![task_id] = @ + 1]
    /\ LET elapsed == clock[task_id] - cur[task_id].start_proc
       IN sleep_time' = [sleep_time EXCEPT ![task_id] = SleepTime(elapsed)]
    /\ cur' = [cur EXCEPT ![task_id] = CurInit]
    /\ pc' = [pc EXCEPT ![task_id] = "sleep"]
    /\ running' = ""
    /\ UNCHANGED <<unused, registry, whisper_model, files, args, clock, ghosts, iters_left, faults>>

\* lines 322-324: any exception of the iteration ends here
W_Except(task_id) ==
    /\ pc[task_id] = "except"
    /\ running = task_id
    /\ response' = NoResponse
    /\ sleep_time' = [sleep_time EXCEPT ![task_id] = backoff_sleep]
    /\ cur' = [cur EXCEPT ![task_id] = CurInit]
    /\ pc' = [pc EXCEPT ![task_id] = "sleep"]
    /\ running' = ""
    /\ UNCHANGED <<unused, registry, whisper_model, files, args, seq, clock, ghosts,
                   iters_left, faults>>

\* asyncio.sleep returns (lines 320, 324): the worker takes the loop again
W_Wake(task_id) ==
    /\ pc[task_id] = "sleep"
    /\ MayRun(task_id)
    /\ response' = NoResponse
    /\ clock' = [clock EXCEPT ![task_id] = @ + sleep_time[task_id]]
    /\ pc' = [pc EXCEPT ![task_id] = "top"]
    /\ running' = task_id
    /\ UNCHANGED <<unused, registry, whisper_model, files, args, seq, cur, sleep_time, ghosts,
                   iters_left, faults>>

\* lines 326-331: terminate the renderer and drop its handle
W_Teardown(task_id) ==
    /\ pc[task_id] = "teardown"
    /\ running = task_id
    /\ response' = NoResponse
    /\ IF task_id \in DOMAIN hls_processes
       THEN /\ terminate_calls' = [terminate_calls EXCEPT ![task_id] = @ + 1]
            /\ \/ /\ NoFault
                  /\ hls_processes' = Del(hls_processes, task_id)
               \/ /\ Fault       \* terminate raises: swallowed, handle kept
                  /\ UNCHANGED hls_processes
       ELSE /\ NoFault
            /\ UNCHANGED <<terminate_calls, hls_processes>>
    /\ pc' = [pc EXCEPT ![task_id] = "done"]
    /\ running' = ""
    /\ UNCHANGED <<unused, active_tasks, processing_status, subtitle_cache, whisper_model,
                   files, args, seq, clock, cur, sleep_time, preview_calls, subtitle_seq,
                   iters_left>>

Worker(task_id) ==
    \/ W_LoadModel(task_id)
    \/ W_CreateFiles(task_id)
    \/ W_InitStatus(task_id)
    \/ W_StartHls(task_id)
    \/ W_HlsUrl(task_id)
    \/ W_LoopCheck(task_id)
    \/ W_Capture(task_id)
    \/ W_Transcribe(task_id)
    \/ W_Translate(task_id)
    \/ W_WriteVtt(task_id)
    \/ W_WriteAss(task_id)
    \/ W_UpdateStatus(task_id)
    \/ W_UpdateSegment(task_id)
    \/ W_Preview(task_id)
    \/ W_PreviewFile(task_id)
    \/ W_RemoveClip(task_id)
    \/ W_Next(task_id)
    \/ W_Except(task_id)
    \/ W_Wake(task_id)
    \/ W_Teardown(task_id)

Next ==
    \/ \E task_id \in Ids, source_url \in Urls, target_lang \in TargetLangs :
          start_streaming(task_id, source_url, target_lang)
    \/ \E task_id \in Ids : stop_streaming(task_id)
    \/ \E task_id \in Ids : status_request(task_id)
    \/ \E task_id \in Ids : Worker(task_id)

Spec == Init /\ [][Next]_vars

SpecTwo == InitTwo /\ [][Next]_vars

\* The event loop runs every coroutine that is ready: a queued or sleeping
\* worker is resumed, and a worker holding the loop takes its next step.
FairSpec == InitFair /\ [][Next]_vars /\ \A task_id \in Ids : WF_vars(Worker(task_id))

\* ================================================================ claims
Started(task_id) == pc[task_id] # "none"
\* positions of the worker inside its loop (lines 253-324)
LoopPcs == {"top", "capture", "transcribe", "translate", "vtt", "ass", "status", "segment",
            "preview", "preview_file", "remove", "next", "except", "sleep"}
\* positions at which the worker has ended
EndPcs == {"returned", "crashed", "done"}
\* a step of stop_streaming(task_id): no other action leaves a stop response
StopStep(task_id) == response'.op = "stop" /\ response'.id = task_id
\* the last step of an iteration of task_id
IterationEnds(task_id) == pc[task_id] \in {"next", "except"} /\ pc'[task_id] = "sleep"
HasClip(task_id) == \E c \in clip_files : c[1] = task_id

\* C1: stop(id) always answers "stopped"; a stop of an id that is not in the
\* active set (never started, or already stopped) changes nothing in the
\* registry or on disk; no renderer is terminated more than once.
C1_StopIdempotent ==
    /\ [](\A id \in Ids : terminate_calls[id] <= 1)
    /\ [][\A id \in Ids : StopStep(id) =>
            /\ response'.body = "stopped"
            /\ id \notin active_tasks'
            /\ UNCHANGED <<processing_status, hls_processes, subtitle_cache, files,
                           terminate_calls>>
            /\ id \notin active_tasks => UNCHANGED active_tasks]_vars

\* a stop request answered after the session was stopped and torn down
C1_Witness ==
    /\ response.op = "stop" /\ response.id = "s1" /\ response.body = "stopped"
    /\ pc["s1"] = "done" /\ terminate_calls["s1"] = 1

\* C2: in the cue cache and in both documents every cue ends after it
\* starts, and starts no earlier than the cue before it.
C2_CueOrder ==
    \A id \in DOMAIN subtitle_cache :
        LET cache == subtitle_cache[id]
            vtt == vtt_file[id].cues
            ass == ass_file[id].cues
        IN /\ \A i \in 1..Len(cache) : cache[i].end > cache[i].start
           /\ \A i \in 1..(Len(cache) - 1) : cache[i + 1].start >= cache[i].start
           /\ \A i \in 1..Len(vtt) : ParseVttTime(vtt[i].end) > ParseVttTime(vtt[i].start)
           /\ \A i \in 1..(Len(vtt) - 1) :
                 ParseVttTime(vtt[i + 1].start) >= ParseVttTime(vtt[i].start)
           /\ \A i \in 1..Len(ass) : ParseAssTime(ass[i].end) > ParseAssTime(ass[i].start)
           /\ \A i \in 1..(Len(ass) - 1) :
                 ParseAssTime(ass[i + 1].start) >= ParseAssTime(ass[i].start)

\* three cues emitted, after a slow iteration
C2_Witness ==
    /\ "s1" \in DOMAIN subtitle_cache
    /\ Len(subtitle_cache["s1"]) = 3
    /\ Len(ass_file["s1"].cues) = 3
    /\ subtitle_cache["s1"][2].start > segment_duration

\* C3: when a translation was requested and the provider gave no usable
\* text (it raised, or returned nothing), the cue appended to both documents
\* carries the transcribed text.
C3_TranslationFallback ==
    \A id \in Ids :
        (pc[id] = "status" /\ cur[id].translation \in {"raised", "empty"}) =>
            /\ cur[id].text_original # <<>>
            /\ Last(vtt_file[id].cues).text = cur[id].text_original
            /\ Last(ass_file[id].cues).text = ReplaceComma(cur[id].text_original)

\* C4: once an iteration has completed, no capture artifact of the session
\* is left on disk.
C4_ClipRemoved == \A id \in Ids : pc[id] = "sleep" => ~HasClip(id)

\* C5: once an iteration has completed, the two documents hold the same
\* cues: same number, same offsets, same text before escaping.
C5_DocsRoundTrip ==
    \A id \in Ids :
        pc[id] = "sleep" =>
            LET vtt == vtt_file[id].cues
                ass == ass_file[id].cues
            IN /\ Len(vtt) = Len(ass)
               /\ \A i \in 1..Len(vtt) :
                    /\ ParseVttTime(vtt[i].start) = ParseAssTime(ass[i].start)
                    /\ ParseVttTime(vtt[i].end) = ParseAssTime(ass[i].end)
                    /\ ReplaceComma(vtt[i].text) = ass[i].text

\* C6 as claimed: the preview renderer is invoked in the iteration that
\* emits the 4th cue of the session, and in no other.
C6_PreviewOnFourthCue ==
    [][\A id \in Ids : (pc[id] = "preview" /\ pc'[id] # "preview") =>
          ((preview_calls'[id] = preview_calls[id] + 1)
             <=> Len(subtitle_cache[id]) = 4)]_vars

\* C6 as amended: the preview renderer is invoked at most once per session;
\* an iteration that emits a cue invokes it if and only if the sequence
\* counter is 3 in that iteration, whatever the number of cues emitted so
\* far; no other step invokes it.
C6_PreviewAtSeq3 ==
    /\ [](\A id \in Ids : preview_calls[id] <= 1)
    /\ [][\A id \in Ids :
            /\ (pc[id] = "preview" /\ pc'[id] # "preview") =>
                  /\ Len(subtitle_cache[id]) = cur[id].cues0 + 1
                  /\ (preview_calls'[id] = preview_calls[id] + 1) <=> seq[id] = preview_seq
            /\ pc[id] # "preview" => preview_calls'[id] = preview_calls[id]]_vars

\* the preview was rendered although fewer than four cues were emitted
C6_Witness ==
    /\ preview_calls["s1"] = 1
    /\ processing_status["s1"].preview_ready
    /\ Len(subtitle_cache["s1"]) = 3

\* C7: an iteration whose capture gave no usable artifact appends no cue
\* and leaves the sequence counter one higher than it found it.
C7_BadSegmentAdvances ==
    [][\A id \in Ids : (IterationEnds(id) /\ cur[id].capture # "ok") =>
          /\ seq'[id] = cur[id].seq0 + 1
          /\ Len(vtt_file'[id].cues) = cur[id].vtt0
          /\ Len(ass_file'[id].cues) = cur[id].ass0
          /\ Len(subtitle_cache'[id]) = cur[id].cues0]_vars

\* C8: while the id of a started session is in the active set, its worker
\* has not ended.
C8_OnlyStopEnds == \A id \in Ids : id \in active_tasks => pc[id] \notin EndPcs

\* C9: once the session is stopped and its worker is at the sleep or the
\* loop test, the worker starts no iteration and appends no cue; a stopped
\* worker inside its loop eventually ends, having terminated the renderer
\* it launched.
C9_CooperativeStop ==
    /\ [][\A id \in Ids :
            (id \notin active_tasks /\ pc[id] \in {"sleep", "top", "teardown", "done"}) =>
               /\ pc'[id] \in {"sleep", "top", "teardown", "done"}
               /\ vtt_file'[id] = vtt_file[id]
               /\ ass_file'[id] = ass_file[id]
               /\ subtitle_cache'[id] = subtitle_cache[id]]_vars
    /\ [](\A id \in Ids : pc[id] = "done" =>
            terminate_calls[id] = IF processing_status[id].hls_ready THEN 1 ELSE 0)
    /\ \A id \in Ids : (id \notin active_tasks /\ pc[id] \in LoopPcs) ~> (pc[id] = "done")

\* a session stopped after two cues, whose worker has terminated the renderer
C9_Witness ==
    /\ pc["s1"] = "done" /\ "s1" \notin active_tasks
    /\ terminate_calls["s1"] = 1 /\ "s1" \notin DOMAIN hls_processes
    /\ Len(subtitle_cache["s1"]) = 2
    /\ response = NoResponse

\* C10: status of an id that was never started is not_found; once status(id)
\* yields a snapshot it yields one ever after.
C10_StatusRetained ==
    /\ [](\A id \in Ids : ~Started(id) => get_status(id).status = "not_found")
    /\ [](\A id \in Ids : (response.op = "status" /\ response.id = id /\ ~Started(id))
                              => response.body = "not_found")
    /\ [][\A id \in Ids : get_status(id).status # "not_found"
                            => (get_status(id).status # "not_found")']_vars

\* a snapshot returned after the session was stopped and its worker ended
C10_Witness ==
    /\ response.op = "status" /\ response.id = "s1" /\ response.body = "streaming"
    /\ "s1" \notin active_tasks /\ pc["s1"] = "done"

\* C11: once the start request of a session has been answered, every status
\* query of that session is answered with a snapshot, never with not_found.
C11_StatusAfterStart ==
    \A id \in Ids :
        (response.op = "status" /\ response.id = id /\ Started(id))
            => response.body # "not_found"

\* C12: the renderer of a session is terminated at most once, and once the
\* worker has ended the registry holds no renderer handle of the session.
C12_HandleLifecycle ==
    \A id \in Ids :
        /\ terminate_calls[id] <= 1
        /\ pc[id] \in EndPcs => id \notin DOMAIN hls_processes

\* a snapshot whose paired fields were written by the same code path
SnapshotConsistent(s, task_id) ==
    /\ s.hls_ready => s.hls_url # ""
    /\ s.preview_ready => s.preview_file # ""
    /\ IF subtitle_seq[task_id] = -1
       THEN s.last_subtitle = <<>> /\ s.current_segment = 0
       ELSE s.last_subtitle # <<>> /\ s.current_segment = subtitle_seq[task_id]

\* C13: every snapshot a status query can return is fully updated: a ready
\* stream has its manifest, a ready preview has its file, and last_subtitle
\* and current_segment were written by the same iteration.
C13_SnapshotConsistent ==
    \A id \in Ids :
        (LoopIdle /\ get_status(id).status # "not_found")
            => SnapshotConsistent(get_status(id), id)

\* a status query answered after the iteration that rendered the preview
C13_Witness ==
    /\ response.op = "status" /\ response.id = "s1" /\ response.body = "streaming"
    /\ pc["s1"] = "sleep"
    /\ processing_status["s1"].hls_ready
    /\ processing_status["s1"].preview_ready
    /\ processing_status["s1"].current_segment = preview_seq

\* C14: at every moment the two documents of a session hold the same number
\* of cues: no reader of the files finds a cue in one that the other lacks.
C14_DocsAgreeAlways ==
    \A id \in (DOMAIN vtt_file) \cap (DOMAIN ass_file) :
        Len(vtt_file[id].cues) = Len(ass_file[id].cues)

\* the session has a status record that says the stream is ready
HlsReady(task_id) ==
    task_id \in DOMAIN processing_status /\ processing_status[task_id].hls_ready
\* the session has a status record that says the preview is ready
PreviewReady(task_id) ==
    task_id \in DOMAIN processing_status /\ processing_status[task_id].preview_ready

\* C15: the launch of the renderer never ends the worker: whatever its
\* outcome the worker goes on to its loop, with hls_ready set exactly when a
\* handle was registered; hls_ready and the manifest are set only after a
\* launch that succeeded.
C15_LaunchNeverFatal ==
    /\ [](\A id \in Ids :
            /\ HlsReady(id) => (id \in DOMAIN hls_processes \/ terminate_calls[id] > 0)
            /\ (id \in DOMAIN processing_status /\ processing_status[id].hls_url # "")
                  => HlsReady(id)
            /\ (HlsReady(id) /\ pc[id] \in LoopPcs) => processing_status[id].hls_url # "")
    /\ [][\A id \in Ids : (pc[id] = "hls" /\ pc'[id] # "hls") =>
            /\ pc'[id] \in {"hls_url", "top"}
            /\ HlsReady(id)' <=> (id \in DOMAIN hls_processes')]_vars

Blank(s) == \A i \in 1..Len(s) : s[i] = " "
\* the iteration of task_id transcribed a blank text and is about to end
EmptyIter(task_id) ==
    /\ pc[task_id] \in {"remove", "next"}
    /\ cur[task_id].capture = "ok"
    /\ Blank(cur[task_id].raw)

\* C17: an iteration whose transcription is empty or blank goes straight to
\* the removal of the artifact; it changes neither document, nor the
\* snapshot, nor the cue cache, nor the preview, and adds one to seq.
C17_EmptyTextNoCue ==
    [][\A id \in Ids :
          /\ (pc[id] = "transcribe" /\ pc'[id] \notin {"transcribe", "except"}
                /\ Blank(cur'[id].raw)) =>
                /\ pc'[id] = "remove"
                /\ UNCHANGED <<vtt_file, ass_file, processing_status, subtitle_cache,
                               preview_calls, preview_files, seq>>
          /\ EmptyIter(id) =>
                /\ UNCHANGED <<vtt_file, ass_file, processing_status, subtitle_cache,
                               preview_calls, preview_files>>
                /\ seq'[id] = IF pc[id] = "next" THEN cur[id].seq0 + 1 ELSE seq[id]]_vars

\* a blank transcription in the iteration after the one that emitted a cue
C17_Witness ==
    /\ pc["s1"] = "next" /\ cur["s1"].capture = "ok" /\ cur["s1"].raw = <<" ">>
    /\ Len(subtitle_cache["s1"]) = 1 /\ processing_status["s1"].current_segment = 0
    /\ seq["s1"] = 1

\* s is an initial part of t
IsPrefix(s, t) == Len(s) <= Len(t) /\ \A i \in 1..Len(s) : s[i] = t[i]
\* doc is the only document the worker ever creates under that header
NewDoc(doc, header) == doc = [header |-> header, cues |-> <<>>]

\* C18: each document is created once, holding its header and no cue, by
\* the step before the status record is set up; both exist when the
\* renderer is launched and throughout the loop; from then on a document
\* keeps its header and every cue it holds, in place.
C18_DocsAppendOnly ==
    /\ [](\A id \in Ids :
            (pc[id] \in LoopPcs \cup {"init", "hls", "hls_url"} \/ id \in DOMAIN hls_processes)
               => /\ id \in DOMAIN vtt_file /\ vtt_file[id].header = "WEBVTT"
                  /\ id \in DOMAIN ass_file /\ ass_file[id].header = "[Script Info]")
    /\ [][\A id \in Ids :
            /\ (id \notin DOMAIN vtt_file /\ id \in DOMAIN vtt_file') =>
                  pc[id] = "files" /\ NewDoc(vtt_file'[id], "WEBVTT")
            /\ (id \notin DOMAIN ass_file /\ id \in DOMAIN ass_file') =>
                  pc[id] = "files" /\ NewDoc(ass_file'[id], "[Script Info]")
            /\ id \in DOMAIN vtt_file =>
                  /\ id \in DOMAIN vtt_file'
                  /\ vtt_file'[id].header = vtt_file[id].header
                  /\ IsPrefix(vtt_file[id].cues, vtt_file'[id].cues)
            /\ id \in DOMAIN ass_file =>
                  /\ id \in DOMAIN ass_file'
                  /\ ass_file'[id].header = ass_file[id].header
                  /\ IsPrefix(ass_file[id].cues, ass_file'[id].cues)]_vars

\* two cues appended to each document of a session whose renderer runs
C18_Witness ==
    /\ "s1" \in DOMAIN hls_processes
    /\ "s1" \in DOMAIN vtt_file /\ Len(vtt_file["s1"].cues) = 2
    /\ "s1" \in DOMAIN ass_file /\ Len(ass_file["s1"].cues) = 2

\* C19: every iteration, also one ended by a caught exception, ends in a
\* sleep of at least the floor, and the worker resumes that much later; an
\* iteration that ended normally after elapsed ms sleeps the rest of the
\* segment duration if that is above the floor, and the floor otherwise.
C19_SleepFloor ==
    [][\A id \in Ids :
          /\ IterationEnds(id) => sleep_time'[id] >= sleep_floor
          /\ (IterationEnds(id) /\ pc[id] = "next") =>
                LET elapsed == clock[id] - cur[id].start_proc
                IN /\ elapsed >= 0
                   /\ sleep_time'[id] = IF segment_duration - elapsed > sleep_floor
                                        THEN segment_duration - elapsed
                                        ELSE sleep_floor
          /\ (pc[id] = "sleep" /\ pc'[id] = "top") =>
                clock'[id] - clock[id] >= sleep_floor]_vars

\* the sleep after an iteration that took longer than the segment duration
C19_Witness ==
    /\ pc["s1"] = "sleep" /\ seq["s1"] = 1
    /\ clock["s1"] > segment_duration
    /\ sleep_time["s1"] = sleep_floor

\* C20: the text of a cue of the styled document holds no raw field
\* separator and no raw line break, so the cue is one line of the document.
C20_AssCueOneLine ==
    \A id \in DOMAIN ass_file :
        \A i \in 1..Len(ass_file[id].cues) :
            LET text == ass_file[id].cues[i].text
            IN \A j \in 1..Len(text) : text[j] \notin {",", "\n"}

\* what a dict holds under a key: <<value>>, or <<>> without the key
Entry(d, k) == IF k \in DOMAIN d THEN <<d[k]>> ELSE <<>>
\* the step is an operation on task_id: a step of its worker, or a request
\* that names it
OpOn(task_id) ==
    \/ pc'[task_id] # pc[task_id]
    \/ response'.op # "none" /\ response'.id = task_id
\* what the registry and the output directory hold of a session
SessionState(task_id) ==
    <<task_id \in active_tasks, Entry(processing_status, task_id),
      Entry(hls_processes, task_id), Entry(vtt_file, task_id), Entry(ass_file, task_id)>>

\* C21: an operation on one session (a request that names it, or any step
\* of its worker) leaves the liveness flag, the status snapshot, the
\* renderer handle and the two documents of every other session unchanged.
C21_SessionIsolation ==
    [][\A a, b \in Ids : (a # b /\ OpOn(a)) => SessionState(b)' = SessionState(b)]_vars

\* one session stopped and torn down while the other, with a cue emitted
\* and its renderer running, is still live
C21_Witness ==
    /\ pc["s1"] = "done" /\ terminate_calls["s1"] = 1 /\ "s1" \notin active_tasks
    /\ "s2" \in active_tasks /\ "s2" \in DOMAIN hls_processes
    /\ "s2" \in DOMAIN vtt_file /\ Len(vtt_file["s2"].cues) = 1
    /\ "s2" \in DOMAIN ass_file /\ Len(ass_file["s2"].cues) = 1
    /\ "s2" \in DOMAIN processing_status /\ processing_status["s2"].last_subtitle # <<>>

\* C22: in the cue cache and in both documents of a session, every cue
\* starts no earlier than the cue before it ends.
C22_CuesNeverOverlap ==
    \A id \in DOMAIN subtitle_cache :
        LET cache == subtitle_cache[id]
            vtt == vtt_file[id].cues
            ass == ass_file[id].cues
        IN /\ \A i \in 1..(Len(cache) - 1) : cache[i + 1].start >= cache[i].end
           /\ \A i \in 1..(Len(vtt) - 1) :
                 ParseVttTime(vtt[i + 1].start) >= ParseVttTime(vtt[i].end)
           /\ \A i \in 1..(Len(ass) - 1) :
                 ParseAssTime(ass[i + 1].start) >= ParseAssTime(ass[i].end)

====
